---- MODULE Spec2Model ----
(***************************************************************************)
(* Model of the AgentPlanningEngine (src/unnamed/part_007): the scheduler  *)
(* createExecutionPlan (dependency graph, depth-first execution order,     *)
(* greedy parallel groups, estimates) and the plan adapter adaptPlan.      *)
(*                                                                         *)
(* Plans are heap objects: `plans` holds the ExecutionPlan objects, a      *)
(* plan's executionOrder is a reference into `arrays`, so that the shallow *)
(* copy `{ ...plan }` of applyAdaptations shares the array with its input. *)
(* JavaScript numbers are modelled as exact non-negative rationals         *)
(* extended with Infinity and NaN (rounding of doubles is not modelled).   *)
(***************************************************************************)
EXTENDS Integers, Sequences, FiniteSets, TLC

VARIABLES tasks, outcome, plans, arrays, nextId, last,
          content, validation, calls, planningHistory, results, insights

vars == <<tasks, outcome, plans, arrays, nextId, last,
          content, validation, calls, planningHistory, results, insights>>

\* the state outside the scheduler and the adapter
validatorVars == <<content, validation>>
decomposerVars == <<calls, planningHistory>>
reflectorVars == <<results, insights>>

(***************************************************************************)
(* Bounds and input domains                                                *)
(***************************************************************************)
\* longest dependency list of a task in the wide input family
MaxDeps == 2
\* number of adaptPlan calls in one behaviour
MaxAdapt == 2

\* the task ids; a task list is a prefix of IdOrder, so an id beyond the
\* prefix is an id that names no task of the list
IdOrder == <<"A", "B", "C">>
TaskIds == {IdOrder[i] : i \in DOMAIN IdOrder}
Durations == {5, 10, 20}
ActualDurations == {20}
Statuses == {"completed", "failed", "blocked", "in_progress"}
Priorities == {"low", "medium", "high", "critical"}
\* the ids of the task lists given to the checkpoint and fallback generator
PolicyIdOrder == <<"A", "B", "C", "D">>
NoTask == "-"

(***************************************************************************)
(* JavaScript numbers (non-negative): n/d in lowest terms, Infinity = 1/0, *)
(* NaN = 0/0.                                                              *)
(***************************************************************************)
RECURSIVE GCD(_, _)
GCD(a, b) == IF b = 0 THEN a ELSE GCD(b, a % b)

Num(n, d) ==
    IF d = 0 THEN [n |-> IF n = 0 THEN 0 ELSE 1, d |-> 0]
    ELSE IF n = 0 THEN [n |-> 0, d |-> 1]
    ELSE [n |-> n \div GCD(n, d), d |-> d \div GCD(n, d)]

FromInt(i) == Num(i, 1)
NaN == Num(0, 0)
Infinity == Num(1, 0)
IsNaN(x) == x = NaN
IsFinite(x) == x.d # 0
IsPositive(x) == x.d # 0 /\ x.n > 0

\* x / y and x * y of IEEE arithmetic on non-negative values
Div(x, y) == Num(x.n * y.d, x.d * y.n)
Mul(x, y) == Num(x.n * y.n, x.d * y.d)
\* x < y and x > y of JavaScript: false when either side is NaN
Less(x, y) ==
    /\ ~IsNaN(x) /\ ~IsNaN(y)
    /\ IsFinite(x)
    /\ IsFinite(y) => x.n * y.d < y.n * x.d
Greater(x, y) == Less(y, x)
\* x === y of JavaScript: NaN equals nothing
NumEq(x, y) == ~IsNaN(x) /\ ~IsNaN(y) /\ x = y

(***************************************************************************)
(* Sequence helpers (Array.prototype.filter / includes / indexOf)          *)
(***************************************************************************)
Includes(s, x) == \E i \in DOMAIN s : s[i] = x
Range(s) == {s[i] : i \in DOMAIN s}

\* 0 when absent (indexOf's -1), else the 1-based first position
IndexOf(s, x) ==
    IF Includes(s, x) THEN CHOOSE i \in DOMAIN s : s[i] = x /\ \A j \in 1..(i - 1) : s[j] # x
    ELSE 0

RECURSIVE Without(_, _)
Without(s, x) ==
    IF s = <<>> THEN <<>>
    ELSE IF Head(s) = x THEN Without(Tail(s), x)
    ELSE <<Head(s)>> \o Without(Tail(s), x)

\* mutant: splice(taskIndex + 1, 1)
RemoveAtNext(s, i) == SubSeq(s, 1, i) \o SubSeq(s, i + 2, Len(s))

RemoveAt(s, i) == SubSeq(s, 1, i - 1) \o SubSeq(s, i + 1, Len(s))

(***************************************************************************)
(* buildDependencyGraph: a Map in insertion order; set() on a key that is  *)
(* already present keeps its position and replaces its value.              *)
(***************************************************************************)
EmptyGraph == [keys |-> <<>>, deps |-> [t \in {} |-> <<>>]]

GraphSet(g, k, v) ==
    [keys |-> IF Includes(g.keys, k) THEN g.keys ELSE Append(g.keys, k),
     deps |-> [t \in (DOMAIN g.deps) \cup {k} |-> IF t = k THEN v ELSE g.deps[t]]]

\* dependencyGraph.get(taskId) || []
GraphGet(g, k) == IF k \in DOMAIN g.deps THEN g.deps[k] ELSE <<>>

RECURSIVE buildDependencyGraphFrom(_, _, _)
buildDependencyGraphFrom(ts, i, g) ==
    IF i > Len(ts) THEN g
    ELSE buildDependencyGraphFrom(ts, i + 1, GraphSet(g, ts[i].id, ts[i].dependencies))

buildDependencyGraph(ts) == buildDependencyGraphFrom(ts, 1, EmptyGraph)

(***************************************************************************)
(* calculateExecutionOrder: depth-first visit with the sets visited and    *)
(* visiting; err is the task named by the thrown error, NoTask if none.    *)
(***************************************************************************)
RECURSIVE visit(_, _, _)
RECURSIVE visitEach(_, _, _, _)

\* mutant: the task is put in front of the order (unshift for push)
visitDoneInFront(taskId, st) ==
    [st EXCEPT !.visiting = @ \ {taskId},
               !.visited = @ \cup {taskId},
               !.order = <<taskId>> \o @]

visitDone(taskId, st) ==
    [st EXCEPT !.visiting = @ \ {taskId},
               !.visited = @ \cup {taskId},
               !.order = Append(@, taskId)]

\* mutant: a task is marked visited when it is entered, so that meeting it
\* again while its dependencies are being visited is taken for a finished task
visitMarkedOnEntry(g, taskId, st) ==
    IF st.err # NoTask THEN st
    ELSE IF taskId \in st.visited \cup st.visiting THEN st
    ELSE LET entered == [st EXCEPT !.visiting = @ \cup {taskId}]
             after == visitEach(g, GraphGet(g, taskId), 1, entered)
         IN  IF after.err # NoTask THEN after ELSE visitDone(taskId, after)

visit(g, taskId, st) ==
    IF st.err # NoTask THEN st
    ELSE IF taskId \in st.visiting THEN [st EXCEPT !.err = taskId]
    ELSE IF taskId \in st.visited THEN st
    ELSE LET entered == [st EXCEPT !.visiting = @ \cup {taskId}]
             after == visitEach(g, GraphGet(g, taskId), 1, entered)
         IN  IF after.err # NoTask THEN after ELSE visitDone(taskId, after)

visitEach(g, deps, i, st) ==
    IF i > Len(deps) \/ st.err # NoTask THEN st
    ELSE visitEach(g, deps, i + 1, visit(g, deps[i], st))

RECURSIVE visitKeys(_, _, _)
visitKeys(g, i, st) ==
    IF i > Len(g.keys) \/ st.err # NoTask THEN st
    ELSE visitKeys(g, i + 1,
                   IF g.keys[i] \in st.visited THEN st ELSE visit(g, g.keys[i], st))

calculateExecutionOrder(g) ==
    visitKeys(g, 1, [order |-> <<>>, visited |-> {}, visiting |-> {}, err |-> NoTask])

(***************************************************************************)
(* identifyParallelGroups / canRunInParallel                               *)
(***************************************************************************)
\* mutant: only the first task's dependencies are looked at
canRunInParallelOneWay(taskId1, taskId2, g) ==
    ~Includes(GraphGet(g, taskId1), taskId2)

canRunInParallel(taskId1, taskId2, g) ==
    /\ ~Includes(GraphGet(g, taskId1), taskId2)
    /\ ~Includes(GraphGet(g, taskId2), taskId1)

\* the inner loop: scan every task for one that joins the group of `first`
RECURSIVE growGroup(_, _, _, _, _)
growGroup(ts, g, first, j, acc) ==
    IF j > Len(ts) THEN acc
    ELSE IF ts[j].id \in acc.processed THEN growGroup(ts, g, first, j + 1, acc)
    ELSE IF canRunInParallel(first, ts[j].id, g)
         THEN growGroup(ts, g, first, j + 1,
                        [group |-> Append(acc.group, ts[j].id),
                         processed |-> acc.processed \cup {ts[j].id}])
         ELSE growGroup(ts, g, first, j + 1, acc)

RECURSIVE identifyGroupsFrom(_, _, _, _, _)
identifyGroupsFrom(ts, g, i, groups, processed) ==
    IF i > Len(ts) THEN groups
    ELSE IF ts[i].id \in processed THEN identifyGroupsFrom(ts, g, i + 1, groups, processed)
    ELSE LET grown == growGroup(ts, g, ts[i].id, 1,
                                [group |-> <<ts[i].id>>,
                                 processed |-> processed \cup {ts[i].id}])
         IN  identifyGroupsFrom(ts, g, i + 1,
                                IF Len(grown.group) > 1 THEN Append(groups, grown.group)
                                ELSE groups,
                                grown.processed)

identifyParallelGroups(ts, g) == identifyGroupsFrom(ts, g, 1, <<>>, {})

(***************************************************************************)
(* allocateResources: an object keyed by task id                           *)
(***************************************************************************)
Types == {"atomic", "composite"}

\* a later task with the same id overwrites the entry of an earlier one
allocateResources(ts) ==
    [id \in {ts[i].id : i \in DOMAIN ts} |->
        LET task == ts[CHOOSE i \in DOMAIN ts : ts[i].id = id /\
                          \A j \in DOMAIN ts : ts[j].id = id => j <= i]
        IN  [estimatedDuration |-> task.estimatedDuration,
             priority |-> task.priority,
             resourceType |-> IF task.type = "atomic" THEN "single_agent" ELSE "multi_agent"]]

(***************************************************************************)
(* calculateEstimates                                                      *)
(***************************************************************************)
InSomeGroup(groups, id) == \E k \in DOMAIN groups : Includes(groups[k], id)

\* tasks.filter(pred).map(t => t.estimatedDuration), for the members of `ids`
RECURSIVE DurationsOf(_, _)
DurationsOf(ts, ids) ==
    IF ts = <<>> THEN <<>>
    ELSE IF Head(ts).id \in ids THEN <<Head(ts).estimatedDuration>> \o DurationsOf(Tail(ts), ids)
    ELSE DurationsOf(Tail(ts), ids)

RECURSIVE SumOf(_)
SumOf(ds) == IF ds = <<>> THEN 0 ELSE Head(ds) + SumOf(Tail(ds))

\* mutant: a group costs the sum of its members (no parallel saving)
MaxOfSummed(ds) == SumOf(ds)

\* Math.max(...ds) of a non-empty list
RECURSIVE MaxOf(_)
MaxOf(ds) ==
    IF Len(ds) = 1 THEN Head(ds)
    ELSE LET m == MaxOf(Tail(ds)) IN IF Head(ds) > m THEN Head(ds) ELSE m

RECURSIVE GroupDurations(_, _, _)
GroupDurations(ts, groups, k) ==
    IF k > Len(groups) THEN 0
    ELSE MaxOf(DurationsOf(ts, Range(groups[k]))) + GroupDurations(ts, groups, k + 1)

\* $0.05 per task
CostPerTask == Num(5, 100)

calculateEstimates(ts, groups) ==
    LET sequentialIds == {ts[i].id : i \in {j \in DOMAIN ts : ~InSomeGroup(groups, ts[j].id)}}
    IN  [duration |-> FromInt(SumOf(DurationsOf(ts, sequentialIds)) + GroupDurations(ts, groups, 1)),
         cost |-> Mul(FromInt(Len(ts)), CostPerTask)]

(***************************************************************************)
(* createCheckpoints / defineFallbackStrategies                            *)
(***************************************************************************)
\* tasks.filter(t => t.priority === 'critical').map(t => t.id)
RECURSIVE criticalTasks(_)
criticalTasks(ts) ==
    IF ts = <<>> THEN <<>>
    ELSE IF Head(ts).priority = "critical" THEN <<Head(ts).id>> \o criticalTasks(Tail(ts))
    ELSE criticalTasks(Tail(ts))

\* mutant: the midpoint is rounded up
midpointRoundedUp(executionOrder) == (Len(executionOrder) + 1) \div 2

\* Math.floor(executionOrder.length / 2), an index counted from 0
midpoint(executionOrder) == Len(executionOrder) \div 2

\* mutant: high priority pauses as well
pausedTasksFromHigh(ts) ==
    LET RECURSIVE from(_)
        from(rest) ==
            IF rest = <<>> THEN <<>>
            ELSE IF Head(rest).priority \in {"high", "critical"}
                 THEN <<Head(rest).id>> \o from(Tail(rest))
                 ELSE from(Tail(rest))
    IN  from(ts)

\* the tasks that get a task_completion checkpoint
pausedTasks(ts) == criticalTasks(ts)

\* the checkpoints, their ids taken from firstId on in the order of creation
createCheckpoints(ts, executionOrder, firstId) ==
    LET critical == pausedTasks(ts)
        atCritical == [k \in DOMAIN critical |->
                          [id |-> firstId + k - 1,
                           taskId |-> critical[k],
                           condition |-> "task_completion",
                           action |-> "pause"]]
    IN  IF Len(executionOrder) > 2
        THEN Append(atCritical,
                    [id |-> firstId + Len(critical),
                     taskId |-> executionOrder[midpoint(executionOrder) + 1],
                     condition |-> "progress_review",
                     action |-> "continue"])
        ELSE atCritical

EscalationParameters == [escalationLevel |-> "immediate"]
RetryParameters == [maxRetries |-> 3, backoffMs |-> 5000]

\* mutant: the critical branch is missing
fallbackForRetryOnly(task) ==
    [triggerId |-> task.id, condition |-> "task_failure",
     action |-> "retry", parameters |-> RetryParameters]

\* the strategy pushed for one task
fallbackFor(task) ==
    IF task.priority = "critical"
    THEN [triggerId |-> task.id, condition |-> "task_failure",
          action |-> "human_intervention", parameters |-> EscalationParameters]
    ELSE [triggerId |-> task.id, condition |-> "task_failure",
          action |-> "retry", parameters |-> RetryParameters]

defineFallbackStrategies(ts) == [i \in DOMAIN ts |-> fallbackFor(ts[i])]

(***************************************************************************)
(* The plan adapter's helpers                                              *)
(***************************************************************************)
Order(arr, plan) == arr[plan.executionOrder]

findAffectedTasks(arr, plan, failedTaskId) ==
    LET order == Order(arr, plan)
    IN  {order[i] : i \in {j \in DOMAIN order : IndexOf(order, order[j]) > IndexOf(order, failedTaskId)}}

analyzeFeedbackImpact(arr, plan, feedback) ==
    [severity |-> IF feedback.status = "failed" THEN "high" ELSE "medium",
     affectedTasks |-> findAffectedTasks(arr, plan, feedback.taskId)]

\* mutant: the replan branch asks for a severity analyzeFeedbackImpact never
\* reports
determineAdaptationStrategyCritical(impact, feedback) ==
    IF feedback.status = "failed" /\ impact.severity = "critical" THEN "replan"
    ELSE IF feedback.status = "blocked" THEN "reorder"
    ELSE "adjust_estimates"

\* mutant: only a completed task leaves the order alone
determineAdaptationStrategyNotCompleted(impact, feedback) ==
    IF feedback.status = "failed" /\ impact.severity = "high" THEN "replan"
    ELSE IF feedback.status # "completed" THEN "reorder"
    ELSE "adjust_estimates"

determineAdaptationStrategy(impact, feedback) ==
    IF feedback.status = "failed" /\ impact.severity = "high" THEN "replan"
    ELSE IF feedback.status = "blocked" THEN "reorder"
    ELSE "adjust_estimates"

\* feedback.actualDuration / (plan.estimatedDuration / plan.executionOrder.length)
adjustmentFactor(arr, plan, feedback) ==
    Div(FromInt(feedback.actualDuration),
        Div(plan.estimatedDuration, FromInt(Len(Order(arr, plan)))))

\* the heap of arrays after the call and the object `adaptedPlan`
\* mutant: an adaptation is a new version of the task plan
applyAdaptationsBumpingVersion(arr, plan, strategy, feedback) ==
    [arrays |-> arr, plan |-> [plan EXCEPT !.taskPlan.version = @ + 1]]

applyAdaptations(arr, plan, strategy, feedback) ==
    LET ref == plan.executionOrder
        taskIndex == IndexOf(arr[ref], feedback.taskId)
    IN  CASE strategy = "replan" ->
               [arrays |-> Append(arr, Without(arr[ref], feedback.taskId)),
                plan |-> [plan EXCEPT !.executionOrder = Len(arr) + 1]]
          [] strategy = "reorder" ->
               [arrays |-> IF taskIndex > 0
                           THEN [arr EXCEPT ![ref] = Append(RemoveAt(@, taskIndex), feedback.taskId)]
                           ELSE arr,
                plan |-> plan]
          [] OTHER ->
               [arrays |-> arr,
                plan |-> [plan EXCEPT !.estimatedDuration =
                                          Mul(@, adjustmentFactor(arr, plan, feedback))]]

recalculateEstimates(arr, plan, feedback) ==
    [duration |-> Mul(plan.estimatedDuration, adjustmentFactor(arr, plan, feedback)),
     cost |-> Mul(plan.estimatedCost, adjustmentFactor(arr, plan, feedback))]

(***************************************************************************)
(* validateDecomposition. A payload is the text handed to JSON.parse: not  *)
(* JSON, the JSON null, or an object. A field that is missing or falsy is  *)
(* FALSE / "absent"; `other` is a truthy value that is no array, and        *)
(* `notIterable` a truthy value a for-of loop cannot iterate.              *)
(***************************************************************************)
Accepted == [ok |-> TRUE, error |-> [at |-> "none", goal |-> 0, task |-> 0]]
Rejected(at, g, t) == [ok |-> FALSE, error |-> [at |-> at, goal |-> g, task |-> t]]

\* !task.id || !task.name || !task.type
taskIsInvalid(task) == ~task.id \/ ~task.name \/ ~task.type

RECURSIVE validateTasksFrom(_, _, _)
validateTasksFrom(items, g, j) ==
    IF j > Len(items) THEN Accepted
    ELSE IF taskIsInvalid(items[j]) THEN Rejected("task", g, j)
    ELSE validateTasksFrom(items, g, j + 1)

RECURSIVE validateSubGoalsFrom(_, _)
validateSubGoalsFrom(goals, i) ==
    IF i > Len(goals) THEN Accepted
    ELSE IF ~goals[i].id \/ ~goals[i].description \/ goals[i].tasks.kind = "absent"
         THEN Rejected("subGoal", i, 0)
    ELSE IF goals[i].tasks.kind = "notIterable"
         THEN Rejected("TypeError", 0, 0)
    ELSE LET inner == validateTasksFrom(goals[i].tasks.items, i, 1)
         IN  IF inner.ok THEN validateSubGoalsFrom(goals, i + 1) ELSE inner

\* !parsed.estimatedDuration || typeof parsed.estimatedDuration !== 'number'
durationIsInvalid(d) ==
    \/ d.kind = "absent"
    \/ d.kind = "number" /\ d.value = 0
    \/ d.kind # "number"

validateDecomposition(text) ==
    IF text.json = "invalid" THEN Rejected("SyntaxError", 0, 0)
    ELSE IF text.json = "null" THEN Rejected("TypeError", 0, 0)
    ELSE IF text.subGoals.kind # "array" THEN Rejected("subGoals", 0, 0)
    ELSE IF durationIsInvalid(text.estimatedDuration) THEN Rejected("estimatedDuration", 0, 0)
    ELSE validateSubGoalsFrom(text.subGoals.items, 1)

\* payloads
MaxSubGoals == 2
MaxGoalTasks == 2
PayloadTasks ==
    {[id |-> TRUE, name |-> TRUE, type |-> TRUE], [id |-> FALSE, name |-> TRUE, type |-> TRUE],
     [id |-> TRUE, name |-> FALSE, type |-> TRUE], [id |-> TRUE, name |-> TRUE, type |-> FALSE]}
TasksValues ==
    {[kind |-> "absent", items |-> <<>>], [kind |-> "notIterable", items |-> <<>>]}
    \cup UNION {{[kind |-> "array", items |-> ts] : ts \in [1..n -> PayloadTasks]} :
                  n \in 0..MaxGoalTasks}
PayloadSubGoals ==
    {[id |-> f[1], description |-> f[2], tasks |-> t] :
        f \in {<<TRUE, TRUE>>, <<FALSE, TRUE>>, <<TRUE, FALSE>>}, t \in TasksValues}
DurationValues ==
    {[kind |-> "absent", value |-> 0], [kind |-> "string", value |-> 0]}
    \cup {[kind |-> "number", value |-> v] : v \in {-5, 0, 5}}
NoContent ==
    [json |-> "none", subGoals |-> [kind |-> "absent", items |-> <<>>],
     estimatedDuration |-> [kind |-> "absent", value |-> 0]]
NotJSON == [NoContent EXCEPT !.json = "invalid"]
JSONNull == [NoContent EXCEPT !.json = "null"]
Payload(subGoals, duration) ==
    [json |-> "object", subGoals |-> subGoals, estimatedDuration |-> duration]
NoResults ==
    [planId |-> 0, completedTasks |-> <<>>, failedTasks |-> <<>>, totalDuration |-> 0,
     qualityScore |-> NaN]
NoInsights ==
    [status |-> "none", planId |-> 0, strengths |-> <<>>, weaknesses |-> <<>>,
     recommendations |-> <<>>, optimizationOpportunities |-> <<>>, confidenceScore |-> NaN]
NoValidation == [ok |-> FALSE, error |-> [at |-> "pending", goal |-> 0, task |-> 0]]

(***************************************************************************)
(* decomposeGoal: one invocation is a record that moves from one await to  *)
(* the next; a rejected await throws into the catch of the method.         *)
(***************************************************************************)
MaxDecompose == 2
AgentIds == {"", "agent1", "agent2"}

\* what the model may answer: no JSON, a complete payload, a payload without
\* estimatedDuration, and a payload with an empty subGoals list
GoodSubGoal ==
    [id |-> TRUE, description |-> TRUE,
     tasks |-> [kind |-> "array", items |-> <<[id |-> TRUE, name |-> TRUE, type |-> TRUE]>>]]
ResponseContents ==
    {NotJSON,
     Payload([kind |-> "array", items |-> <<GoodSubGoal>>], [kind |-> "number", value |-> 5]),
     Payload([kind |-> "array", items |-> <<GoodSubGoal>>], [kind |-> "absent", value |-> 0]),
     Payload([kind |-> "array", items |-> <<>>], [kind |-> "number", value |-> 5])}
Responses ==
    {[ok |-> TRUE, content |-> c] : c \in ResponseContents}
    \cup {[ok |-> FALSE, content |-> NoContent]}

\* mutant: a rejected promise is taken for a resolved one
awaitedSwallowing(ok) == "resolved"

\* await p: continues when p resolves, throws when p rejects
awaited(ok) == IF ok THEN "resolved" ELSE "rejected"

Settled(ok) == IF ok THEN "ok" ELSE "failed"

\* mutant: every plan is filed under 'default'
historyKeyShared(agentId) == "default"

\* context.agentId || 'default'
historyKey(agentId) == IF agentId = "" THEN "default" ELSE agentId

\* this.planningHistory.get(key) || []
historyGet(history, key) == IF key \in DOMAIN history THEN history[key] ELSE <<>>

\* this.planningHistory.set(key, value)
historySet(history, key, value) ==
    [k \in DOMAIN history \cup {key} |-> IF k = key THEN value ELSE history[k]]

\* plans.length of getPlanningStats(agentId); no execution is ever recorded,
\* so the other statistics are those of an empty execution history
getPlanningStats(history, agentId) ==
    LET stored == historyGet(history, agentId)
    IN  [totalPlans |-> Len(stored), totalExecutions |-> 0]

NewCall(agentId) ==
    [agentId |-> agentId, pc |-> "routeRequest", routeCalls |-> 1, execCalls |-> 0,
     routed |-> "pending", executed |-> "pending", response |-> NoContent,
     validation |-> NoValidation, stored |-> FALSE, goalId |-> 0]

TaskPlanOf(goalId, decomposition) ==
    [goalId |-> goalId, subGoals |-> decomposition.subGoals.items,
     estimatedDuration |-> decomposition.estimatedDuration.value, version |-> 1]

(***************************************************************************)
(* reflectOnPerformance. The confidence score is kept in exact tenths.     *)
(***************************************************************************)
MaxDone == 4
TotalDurations == {0, 100, 200}
QualityScores == {Num(5, 10), Num(7, 10), Num(9, 10)}
ResultsOf(completed, failed, totalDuration, qualityScore) ==
    [planId |-> 1, completedTasks |-> [i \in 1..completed |-> i],
     failedTasks |-> [i \in 1..failed |-> completed + i],
     totalDuration |-> totalDuration, qualityScore |-> qualityScore]

\* mutant: the share of the failed tasks
successRateOfFailed(r) ==
    Div(FromInt(Len(r.failedTasks)),
        FromInt(Len(r.completedTasks) + Len(r.failedTasks)))

successRate(r) ==
    Div(FromInt(Len(r.completedTasks)),
        FromInt(Len(r.completedTasks) + Len(r.failedTasks)))

\* mutant: the thresholds 0.8 and 0.6 belong to strengths and weaknesses
analyzePerformanceInclusive(r) ==
    [strengths |-> IF ~Less(successRate(r), Num(8, 10)) /\ ~IsNaN(successRate(r))
                   THEN <<"High success rate", "Good task completion">> ELSE <<>>,
     weaknesses |-> IF ~Greater(successRate(r), Num(6, 10)) /\ ~IsNaN(successRate(r))
                    THEN <<"Low success rate", "Task execution issues">> ELSE <<>>,
     optimizations |-> IF Less(r.qualityScore, Num(7, 10))
                       THEN <<"Improve task quality", "Better resource allocation">>
                       ELSE <<>>]

analyzePerformance(r) ==
    [strengths |-> IF Greater(successRate(r), Num(8, 10))
                   THEN <<"High success rate", "Good task completion">> ELSE <<>>,
     weaknesses |-> IF Less(successRate(r), Num(6, 10))
                    THEN <<"Low success rate", "Task execution issues">> ELSE <<>>,
     optimizations |-> IF Less(r.qualityScore, Num(7, 10))
                       THEN <<"Improve task quality", "Better resource allocation">>
                       ELSE <<>>]

identifyPerformancePatterns(r) ==
    (IF r.totalDuration > Len(r.completedTasks) * 60
     THEN <<"Tasks taking longer than expected">> ELSE <<>>)
    \o (IF Len(r.failedTasks) > 0 THEN <<"Task failure pattern detected">> ELSE <<>>)

generateRecommendations(analysis, patterns) ==
    (IF Includes(analysis.weaknesses, "Low success rate")
     THEN <<"Review task complexity and break down further">> ELSE <<>>)
    \o (IF Includes(patterns, "Tasks taking longer than expected")
        THEN <<"Adjust duration estimates and add buffer time">> ELSE <<>>)

Clamp(lo, x, hi) == IF x < lo THEN lo ELSE IF x > hi THEN hi ELSE x

\* mutant: a tie between strengths and weaknesses raises the score
calculateConfidenceScoreTieUp(analysis, patterns) ==
    LET base == IF Len(analysis.strengths) >= Len(analysis.weaknesses) THEN 8 + 1 ELSE 8 - 1
        score == IF Len(patterns) > 2 THEN base - 2 ELSE base
    IN  Num(IF score < 1 THEN 1 ELSE IF score > 10 THEN 10 ELSE score, 10)

\* in tenths: 8, +1 or -1, -2 for more than two patterns, clamped to 1..10
calculateConfidenceScore(analysis, patterns) ==
    LET base == IF Len(analysis.strengths) > Len(analysis.weaknesses) THEN 8 + 1 ELSE 8 - 1
        score == IF Len(patterns) > 2 THEN base - 2 ELSE base
    IN  Num(Clamp(1, score, 10), 10)

insightsOf(r) ==
    LET performanceAnalysis == analyzePerformance(r)
        patterns == identifyPerformancePatterns(r)
    IN  [status |-> "returned",
         planId |-> r.planId,
         strengths |-> performanceAnalysis.strengths,
         weaknesses |-> performanceAnalysis.weaknesses,
         recommendations |-> generateRecommendations(performanceAnalysis, patterns),
         optimizationOpportunities |-> performanceAnalysis.optimizations,
         confidenceScore |-> calculateConfidenceScore(performanceAnalysis, patterns)]

(***************************************************************************)
(* State                                                                   *)
(***************************************************************************)
\* what a caller holding the plan object sees
PlanView(arr, plan) ==
    [id |-> plan.id,
     executionOrder |-> arr[plan.executionOrder],
     taskPlan |-> plan.taskPlan,
     parallelGroups |-> plan.parallelGroups,
     resourceAllocation |-> plan.resourceAllocation,
     checkpoints |-> plan.checkpoints,
     fallbackStrategies |-> plan.fallbackStrategies,
     estimatedCost |-> plan.estimatedCost,
     estimatedDuration |-> plan.estimatedDuration]

NoView ==
    [id |-> 0, executionOrder |-> <<>>,
     taskPlan |-> [goalId |-> 0, estimatedDuration |-> NaN, version |-> 0],
     parallelGroups |-> <<>>, resourceAllocation |-> <<>>, checkpoints |-> <<>>,
     fallbackStrategies |-> <<>>,
     estimatedCost |-> NaN, estimatedDuration |-> NaN]
NoFeedback == [taskId |-> NoTask, status |-> "none", actualDuration |-> 0]
NoCall ==
    [op |-> "none", input |-> 0, before |-> NoView, feedback |-> NoFeedback,
     strategy |-> "none", output |-> 0]

Feedbacks ==
    [taskId : TaskIds, status : Statuses, actualDuration : ActualDurations]

\* dependency lists: ids without repetition, at most k of them
DepSeqs(k) ==
    UNION {{s \in [1..m -> TaskIds] : \A i, j \in 1..m : s[i] = s[j] => i = j} : m \in 0..k}

\* the list of the first n tasks of `ids`, with the chosen dependencies,
\* durations, priorities and types
TaskListOf(ids, n, c) ==
    [i \in 1..n |-> [id |-> ids[i],
                     dependencies |-> c[i][1],
                     estimatedDuration |-> c[i][2],
                     priority |-> c[i][3],
                     type |-> c[i][4]]]

TaskList(n, c) == TaskListOf(IdOrder, n, c)

TypeOK ==
    /\ outcome.status \in {"none", "plan", "error"}
    /\ nextId \in Nat
    /\ \A h \in DOMAIN plans : plans[h].executionOrder \in DOMAIN arrays

InitState ==
    /\ outcome = [status |-> "none", plan |-> 0, error |-> NoTask]
    /\ plans = <<>>
    /\ arrays = <<>>
    /\ nextId = 1
    /\ last = NoCall
    /\ validation = NoValidation
    /\ calls = <<>>
    /\ planningHistory = <<>>
    /\ insights = NoInsights

\* the scheduler's inputs: every dependency shape, every duration
InitPlan ==
    /\ \E n \in 0..Len(IdOrder) :
          \E c \in [1..n -> DepSeqs(MaxDeps) \X Durations \X {"medium"} \X {"atomic"}] :
             tasks = TaskList(n, c)
    /\ content = NoContent
    /\ results = NoResults
    /\ InitState

\* the adapter's inputs: lists of equally long tasks with at most one
\* dependency each (chains, forests, independent tasks, unknown ids, cycles)
Init ==
    /\ \E n \in 0..Len(IdOrder) :
          \E c \in [1..n -> DepSeqs(1) \X {10} \X {"medium"} \X {"atomic"}] :
             tasks = TaskList(n, c)
    /\ content = NoContent
    /\ results = NoResults
    /\ InitState

\* the checkpoint and fallback generator's inputs: up to four tasks of every
\* priority, with at most one dependency each
InitPolicy ==
    /\ \E n \in 0..Len(PolicyIdOrder) :
          \E c \in [1..n -> DepSeqs(1) \X {10} \X Priorities \X {"atomic"}] :
             tasks = TaskListOf(PolicyIdOrder, n, c)
    /\ content = NoContent
    /\ results = NoResults
    /\ InitState

\* plans to adapt whose tasks differ in priority and type and depend on
\* tasks of the list only
FrameIdOrder == <<"A", "B">>
FramePriorities == {"medium", "critical"}
InitFrame ==
    /\ \E n \in 0..Len(FrameIdOrder) :
          \E c \in [1..n -> DepSeqs(1) \X {10} \X FramePriorities \X Types] :
             /\ \A i \in 1..n : Range(c[i][1]) \subseteq Range(FrameIdOrder)
             /\ tasks = TaskListOf(FrameIdOrder, n, c)
    /\ content = NoContent
    /\ results = NoResults
    /\ InitState

\* the reflector's inputs
InitReflect ==
    /\ \E completed \in 0..MaxDone, failed \in 0..MaxDone :
          \E totalDuration \in TotalDurations, qualityScore \in QualityScores :
             results = ResultsOf(completed, failed, totalDuration, qualityScore)
    /\ tasks = <<>>
    /\ content = NoContent
    /\ InitState

\* decomposeGoal starts from an engine that has planned nothing
InitDecompose ==
    /\ tasks = <<>>
    /\ content = NoContent
    /\ results = NoResults
    /\ InitState

\* the validator's inputs
InitValidate ==
    /\ \/ content \in {NotJSON, JSONNull}
       \/ \E d \in DurationValues :
             \/ \E k \in {"absent", "other"} :
                   content = Payload([kind |-> k, items |-> <<>>], d)
             \/ \E n \in 0..MaxSubGoals :
                   \E goals \in [1..n -> PayloadSubGoals] :
                      content = Payload([kind |-> "array", items |-> goals], d)
    /\ tasks = <<>>
    /\ results = NoResults
    /\ InitState

(***************************************************************************)
(* createExecutionPlan(tasks)                                              *)
(***************************************************************************)
createExecutionPlan ==
    /\ outcome.status = "none"
    /\ LET dependencyGraph == buildDependencyGraph(tasks)
           scheduled == calculateExecutionOrder(dependencyGraph)
           parallelGroups == identifyParallelGroups(tasks, dependencyGraph)
           resourceAllocation == allocateResources(tasks)
           checkpoints == createCheckpoints(tasks, scheduled.order, nextId)
           fallbackStrategies == defineFallbackStrategies(tasks)
           estimates == calculateEstimates(tasks, parallelGroups)
           planId == nextId + Len(checkpoints)
       IN  IF scheduled.err # NoTask
           THEN /\ outcome' = [status |-> "error", plan |-> 0, error |-> scheduled.err]
                /\ last' = [NoCall EXCEPT !.op = "createExecutionPlan"]
                /\ UNCHANGED <<plans, arrays, nextId>>
           ELSE /\ arrays' = Append(arrays, scheduled.order)
                /\ plans' = Append(plans,
                                   [id |-> planId,
                                    taskPlan |-> [goalId |-> planId + 1,
                                                  estimatedDuration |-> estimates.duration,
                                                  version |-> 1],
                                    executionOrder |-> Len(arrays) + 1,
                                    parallelGroups |-> parallelGroups,
                                    resourceAllocation |-> resourceAllocation,
                                    checkpoints |-> checkpoints,
                                    fallbackStrategies |-> fallbackStrategies,
                                    estimatedCost |-> estimates.cost,
                                    estimatedDuration |-> estimates.duration])
                /\ nextId' = planId + 2
                /\ outcome' = [status |-> "plan", plan |-> Len(plans) + 1, error |-> NoTask]
                /\ last' = [NoCall EXCEPT !.op = "createExecutionPlan",
                                          !.output = Len(plans) + 1]
    /\ UNCHANGED <<tasks, validatorVars, decomposerVars, reflectorVars>>

(***************************************************************************)
(* adaptPlan(currentPlan, feedback), currentPlan being the object plans[h] *)
(***************************************************************************)
adaptPlan(h, feedback) ==
    /\ h \in DOMAIN plans
    /\ Len(plans) <= MaxAdapt
    /\ LET currentPlan == plans[h]
           impact == analyzeFeedbackImpact(arrays, currentPlan, feedback)
           adaptationStrategy == determineAdaptationStrategy(impact, feedback)
           applied == applyAdaptations(arrays, currentPlan, adaptationStrategy, feedback)
           newEstimates == recalculateEstimates(applied.arrays, applied.plan, feedback)
           adaptedPlan == [applied.plan EXCEPT !.estimatedCost = newEstimates.cost,
                                               !.estimatedDuration = newEstimates.duration,
                                               !.id = nextId]
       IN  /\ arrays' = applied.arrays
           /\ plans' = Append(plans, adaptedPlan)
           /\ nextId' = nextId + 1
           /\ last' = [op |-> "adaptPlan", input |-> h,
                       before |-> PlanView(arrays, currentPlan),
                       feedback |-> feedback,
                       strategy |-> adaptationStrategy,
                       output |-> Len(plans) + 1]
    /\ UNCHANGED <<tasks, outcome, validatorVars, decomposerVars, reflectorVars>>

(***************************************************************************)
(* decomposeGoal(goal, context)                                            *)
(***************************************************************************)
schedulerVars == <<tasks, outcome, plans, arrays, last>>

\* the call up to its first await: routeRequest has been called
decomposeGoal(agentId) ==
    /\ Len(calls) < MaxDecompose
    /\ calls' = Append(calls, NewCall(agentId))
    /\ UNCHANGED <<schedulerVars, nextId, planningHistory, validatorVars, reflectorVars>>

\* routeRequest settles; on success executeWithModel is called
routeRequestSettles(i, ok) ==
    /\ i \in DOMAIN calls
    /\ calls[i].pc = "routeRequest"
    /\ calls' = [calls EXCEPT ![i] =
                   IF awaited(ok) = "resolved"
                   THEN [@ EXCEPT !.routed = Settled(ok), !.pc = "executeWithModel",
                                  !.execCalls = @ + 1]
                   ELSE [@ EXCEPT !.routed = Settled(ok), !.pc = "threw"]]
    /\ UNCHANGED <<schedulerVars, nextId, planningHistory, validatorVars, reflectorVars>>

\* executeWithModel settles; on success validateDecomposition runs on the
\* response's content and the call awaits its promise
executeWithModelSettles(i, response) ==
    /\ i \in DOMAIN calls
    /\ calls[i].pc = "executeWithModel"
    /\ calls' = [calls EXCEPT ![i] =
                   IF awaited(response.ok) = "resolved"
                   THEN [@ EXCEPT !.executed = Settled(response.ok),
                                  !.response = response.content,
                                  !.validation = validateDecomposition(response.content),
                                  !.pc = "validateDecomposition"]
                   ELSE [@ EXCEPT !.executed = Settled(response.ok), !.pc = "threw"]]
    /\ UNCHANGED <<schedulerVars, nextId, planningHistory, validatorVars, reflectorVars>>

\* validateDecomposition settles; on success the task plan is built, pushed
\* to the agent's history and returned
validateDecompositionSettles(i) ==
    /\ i \in DOMAIN calls
    /\ calls[i].pc = "validateDecomposition"
    /\ IF awaited(calls[i].validation.ok) = "resolved"
       THEN LET key == historyKey(calls[i].agentId)
                taskPlan == TaskPlanOf(nextId, calls[i].response)
            IN  /\ planningHistory' =
                      historySet(planningHistory, key,
                                 Append(historyGet(planningHistory, key), taskPlan))
                /\ calls' = [calls EXCEPT ![i] =
                               [@ EXCEPT !.stored = TRUE, !.goalId = nextId, !.pc = "returned"]]
                /\ nextId' = nextId + 1
       ELSE /\ calls' = [calls EXCEPT ![i] = [@ EXCEPT !.pc = "threw"]]
            /\ UNCHANGED <<nextId, planningHistory>>
    /\ UNCHANGED <<schedulerVars, validatorVars, reflectorVars>>

(***************************************************************************)
(* reflectOnPerformance(results)                                           *)
(***************************************************************************)
reflectOnPerformance ==
    /\ results # NoResults
    /\ insights = NoInsights
    /\ insights' = insightsOf(results)
    /\ UNCHANGED <<schedulerVars, nextId, validatorVars, decomposerVars, results>>

(***************************************************************************)
(* validateDecomposition(content), called on its own                       *)
(***************************************************************************)
validate ==
    /\ content # NoContent
    /\ validation = NoValidation
    /\ validation' = validateDecomposition(content)
    /\ UNCHANGED <<tasks, outcome, plans, arrays, nextId, last, content,
                   decomposerVars, reflectorVars>>

Next ==
    \/ createExecutionPlan
    \/ \E h \in DOMAIN plans, feedback \in Feedbacks : adaptPlan(h, feedback)

NextPlan == createExecutionPlan

Spec == Init /\ [][Next]_vars

SpecPlan == InitPlan /\ [][NextPlan]_vars

SpecPolicy == InitPolicy /\ [][NextPlan]_vars

SpecFrame == InitFrame /\ [][Next]_vars

NextValidate == validate

NextDecompose ==
    \/ \E agentId \in AgentIds : decomposeGoal(agentId)
    \/ \E i \in 1..MaxDecompose, ok \in BOOLEAN : routeRequestSettles(i, ok)
    \/ \E i \in 1..MaxDecompose, response \in Responses : executeWithModelSettles(i, response)
    \/ \E i \in 1..MaxDecompose : validateDecompositionSettles(i)

SpecDecompose == InitDecompose /\ [][NextDecompose]_vars

NextReflect == reflectOnPerformance

SpecReflect == InitReflect /\ [][NextReflect]_vars

SpecValidate == InitValidate /\ [][NextValidate]_vars

(***************************************************************************)
(* Vocabulary of the properties: the dependency relation of the task list, *)
(* read off the input and not off the scheduler's graph.                   *)
(***************************************************************************)
IdsOf(ts) == {ts[i].id : i \in DOMAIN ts}
DepsOf(ts, id) == UNION {Range(ts[i].dependencies) : i \in {j \in DOMAIN ts : ts[j].id = id}}
DurationOf(ts, id) == ts[CHOOSE i \in DOMAIN ts : ts[i].id = id].estimatedDuration

RECURSIVE DepClosure(_, _)
DepClosure(ts, S) ==
    LET more == S \cup UNION {DepsOf(ts, t) : t \in S}
    IN  IF more = S THEN S ELSE DepClosure(ts, more)

\* everything `id` depends on, directly or through other tasks
DependsOnAll(ts, id) == DepClosure(ts, DepsOf(ts, id))
OnCycle(ts, id) == id \in DependsOnAll(ts, id)
HasCycle(ts) == \E id \in IdsOf(ts) : OnCycle(ts, id)
DepsKnown(ts) == \A id \in IdsOf(ts) : DepsOf(ts, id) \subseteq IdsOf(ts)

Planned == outcome.status = "plan"
Failed == outcome.status = "error"
Returned == outcome.status # "none"
CreatedPlan == plans[outcome.plan]
CreatedOrder == arrays[CreatedPlan.executionOrder]

RECURSIVE SetSum(_, _)
\* the sum of the durations of the tasks named in S
SetSum(ts, S) ==
    IF S = {} THEN 0
    ELSE LET x == CHOOSE y \in S : TRUE IN DurationOf(ts, x) + SetSum(ts, S \ {x})

SetMax(ts, S) ==
    CHOOSE m \in {DurationOf(ts, x) : x \in S} : \A x \in S : DurationOf(ts, x) <= m

(***************************************************************************)
(* C1: for a task list with unique ids whose dependencies all name tasks   *)
(* of the list and form no cycle, createExecutionPlan returns a plan whose *)
(* executionOrder holds every task id exactly once, each task after all of *)
(* its dependencies.                                                       *)
(***************************************************************************)
C1_OrderIsTopologicalPermutation ==
    (Returned /\ DepsKnown(tasks) /\ ~HasCycle(tasks)) =>
        /\ Planned
        /\ Len(CreatedOrder) = Len(tasks)
        /\ Range(CreatedOrder) = IdsOf(tasks)
        /\ \A i \in DOMAIN CreatedOrder :
              \A d \in DepsOf(tasks, CreatedOrder[i]) :
                 \E j \in 1..(i - 1) : CreatedOrder[j] = d

\* a plan for three tasks whose input order is not a valid order
C1_Witness ==
    /\ Planned /\ DepsKnown(tasks) /\ ~HasCycle(tasks)
    /\ Len(tasks) = 3
    /\ "C" \in DepsOf(tasks, "A")
    /\ "B" \in DepsOf(tasks, "C")

(***************************************************************************)
(* C2: for a task list whose dependencies contain a cycle (a task that     *)
(* depends on itself included), createExecutionPlan returns no plan and    *)
(* fails with a circular-dependency error naming a task on a cycle.        *)
(***************************************************************************)
C2_CycleIsReported ==
    (Returned /\ HasCycle(tasks)) =>
        /\ Failed
        /\ plans = <<>>
        /\ OnCycle(tasks, outcome.error)

\* the cycle B -> C -> B is reached from A, which is on no cycle
C2_Witness ==
    /\ Failed
    /\ Len(tasks) = 3
    /\ ~OnCycle(tasks, "A")
    /\ "B" \in DepsOf(tasks, "A")
    /\ OnCycle(tasks, "B") /\ "B" \notin DepsOf(tasks, "B")

(***************************************************************************)
(* C3: in every parallel group of a returned plan, no member is in the     *)
(* dependency list of another member of the same group.                    *)
(***************************************************************************)
C3_NoEdgeInsideGroup ==
    Planned =>
        \A k \in DOMAIN CreatedPlan.parallelGroups :
           \A a, b \in Range(CreatedPlan.parallelGroups[k]) :
              a # b => a \notin DepsOf(tasks, b)

(***************************************************************************)
(* C4: the estimatedDuration of a returned plan is the sum of the          *)
(* durations of the tasks in no parallel group plus, per parallel group,   *)
(* the longest duration among its members; A(10), B(20, after A), C(5)     *)
(* gives the group {A, C} and 30.                                          *)
(***************************************************************************)
C4_Example ==
    <<[id |-> "A", dependencies |-> <<>>, estimatedDuration |-> 10, priority |-> "medium", type |-> "atomic"],
      [id |-> "B", dependencies |-> <<"A">>, estimatedDuration |-> 20, priority |-> "medium", type |-> "atomic"],
      [id |-> "C", dependencies |-> <<>>, estimatedDuration |-> 5, priority |-> "medium", type |-> "atomic"]>>

C4_DurationIsSequentialPlusGroupMax ==
    Planned =>
        LET groups == CreatedPlan.parallelGroups
            grouped == UNION {Range(groups[k]) : k \in DOMAIN groups}
            total == SetSum(tasks, IdsOf(tasks) \ grouped)
                     + SumOf([k \in DOMAIN groups |-> SetMax(tasks, Range(groups[k]))])
        IN  /\ CreatedPlan.estimatedDuration = FromInt(total)
            /\ tasks = C4_Example =>
                  /\ groups = <<(<<"A", "C">>)>>
                  /\ CreatedPlan.estimatedDuration = FromInt(30)

C4_Witness == Planned /\ tasks = C4_Example

(***************************************************************************)
(* Vocabulary of the adapter's properties: the last call's argument as it  *)
(* was before the call, the same object now, and the returned object.      *)
(***************************************************************************)
Adapted == last.op = "adaptPlan"
AdaptedWith(status) == Adapted /\ last.feedback.status = status
X == last.feedback.taskId
Before == last.before
InputNow == PlanView(arrays, plans[last.input])
Output == PlanView(arrays, plans[last.output])

\* s holds exactly the elements of S, each once, in the order they have in t
SameRelativeOrder(s, t, S) ==
    /\ Range(s) = S
    /\ Len(s) = Cardinality(S)
    /\ \A i, j \in DOMAIN s : i < j => IndexOf(t, s[i]) < IndexOf(t, s[j])

(***************************************************************************)
(* C5: adaptPlan with feedback {taskId: X, status: failed} returns a plan  *)
(* whose executionOrder does not contain X and holds every other task of   *)
(* the input order in the same relative order, under an id that no plan    *)
(* created before carries, the input plan included.                        *)
(***************************************************************************)
C5_FailedTaskRemoved ==
    AdaptedWith("failed") =>
        /\ ~Includes(Output.executionOrder, X)
        /\ SameRelativeOrder(Output.executionOrder, Before.executionOrder,
                             Range(Before.executionOrder) \ {X})
        /\ Output.id # Before.id
        /\ \A h \in 1..(last.output - 1) : plans[h].id # Output.id

\* the middle one of three tasks failed
C5_Witness ==
    /\ AdaptedWith("failed")
    /\ Len(Before.executionOrder) = 3
    /\ Before.executionOrder[2] = X
    /\ Len(Output.executionOrder) = 2

(***************************************************************************)
(* C6: adaptPlan with feedback {taskId: X, status: blocked} returns a plan *)
(* whose executionOrder is, when X is in the input order, a permutation of *)
(* it with X last and the other tasks in their previous relative order,    *)
(* and is the input order unchanged when X is not in it.                   *)
(***************************************************************************)
C6_BlockedTaskMovedLast ==
    AdaptedWith("blocked") =>
        IF Includes(Before.executionOrder, X)
        THEN /\ Len(Output.executionOrder) = Len(Before.executionOrder)
             /\ Output.executionOrder[Len(Output.executionOrder)] = X
             /\ SameRelativeOrder(SubSeq(Output.executionOrder, 1, Len(Output.executionOrder) - 1),
                                  Before.executionOrder,
                                  Range(Before.executionOrder) \ {X})
        ELSE Output.executionOrder = Before.executionOrder

\* the first one of three tasks is blocked
C6_Witness ==
    /\ AdaptedWith("blocked")
    /\ Len(Before.executionOrder) = 3
    /\ Before.executionOrder[1] = X
    /\ Output.executionOrder[3] = X

(***************************************************************************)
(* C7: the strategy follows from the feedback status alone: failed gives   *)
(* replan, blocked gives reorder, completed and in_progress give           *)
(* adjust_estimates, and then the returned executionOrder is the input's.  *)
(***************************************************************************)
C7_StrategyByStatus ==
    Adapted =>
        /\ last.strategy = CASE last.feedback.status = "failed" -> "replan"
                             [] last.feedback.status = "blocked" -> "reorder"
                             [] OTHER -> "adjust_estimates"
        /\ last.feedback.status \in {"completed", "in_progress"} =>
              Output.executionOrder = Before.executionOrder

\* an in_progress report on the first of several tasks
C7_Witness ==
    /\ AdaptedWith("in_progress")
    /\ Len(Before.executionOrder) >= 2
    /\ Before.executionOrder[1] = X
    /\ last.strategy = "adjust_estimates"

(***************************************************************************)
(* C8: for a plan with positive estimates and a non-empty executionOrder   *)
(* and every feedback status, adaptPlan rescales the cost by the factor of *)
(* the duration: newCost * oldDuration = oldCost * newDuration.            *)
(***************************************************************************)
C8_CostScaledLikeDuration ==
    (/\ Adapted
     /\ IsPositive(Before.estimatedDuration)
     /\ IsPositive(Before.estimatedCost)
     /\ Before.executionOrder # <<>>) =>
        NumEq(Mul(Output.estimatedCost, Before.estimatedDuration),
              Mul(Before.estimatedCost, Output.estimatedDuration))

(***************************************************************************)
(* C9: for every feedback status the new estimatedDuration is the old one  *)
(* times actualDuration / (old estimatedDuration / n), n the length of the *)
(* executionOrder of the plan passed to adaptPlan, applied once.           *)
(***************************************************************************)
C9_SingleLinearCorrection ==
    (/\ Adapted
     /\ IsPositive(Before.estimatedDuration)
     /\ Before.executionOrder # <<>>) =>
        NumEq(Output.estimatedDuration,
              Mul(Before.estimatedDuration,
                  Div(FromInt(last.feedback.actualDuration),
                      Div(Before.estimatedDuration, FromInt(Len(Before.executionOrder))))))

(***************************************************************************)
(* C10: after adaptPlan, for every feedback status, the plan object passed *)
(* in has the id, executionOrder, estimatedDuration and estimatedCost it   *)
(* had before the call.                                                    *)
(***************************************************************************)
C10_InputPlanUnchanged ==
    Adapted =>
        /\ InputNow.id = Before.id
        /\ InputNow.executionOrder = Before.executionOrder
        /\ InputNow.estimatedDuration = Before.estimatedDuration
        /\ InputNow.estimatedCost = Before.estimatedCost

(***************************************************************************)
(* C11: two adaptPlan calls are never both applied to the same plan: a     *)
(* call against a plan id that the call before it already adapted is       *)
(* queued behind that call's result or rejected, so it is never applied to *)
(* the plan that call was given.                                           *)
(***************************************************************************)
C11_AdaptationsSerialized ==
    [][(Adapted /\ last'.op = "adaptPlan" /\ last'.output # last.output) =>
          last'.before.id # last.before.id]_vars

(***************************************************************************)
(* C12: the executionOrder of the plan returned by createExecutionPlan and *)
(* of every plan obtained from it by adaptPlan calls is a topological      *)
(* order: each task comes after every dependency of it that is in the      *)
(* order.                                                                  *)
(***************************************************************************)
TopologicalWithin(order) ==
    \A i \in DOMAIN order :
       \A d \in DepsOf(tasks, order[i]) :
          Includes(order, d) => \E j \in 1..(i - 1) : order[j] = d

C12_OrderStaysTopological ==
    (Planned /\ DepsKnown(tasks)) =>
        \A h \in DOMAIN plans : TopologicalWithin(arrays[plans[h].executionOrder])

(***************************************************************************)
(* C13: when a dependency names an id that is no task of the list,         *)
(* createExecutionPlan fails and returns no plan.                          *)
(***************************************************************************)
C13_UnknownReferenceRejected ==
    (Returned /\ ~DepsKnown(tasks)) => (Failed /\ plans = <<>>)

(***************************************************************************)
(* Vocabulary of the checkpoint and fallback properties                    *)
(***************************************************************************)
PriorityOf(ts, id) == ts[CHOOSE i \in DOMAIN ts : ts[i].id = id].priority
\* the positions of the checkpoints of a condition, all or those of one task
CheckpointsOn(condition) ==
    {k \in DOMAIN CreatedPlan.checkpoints : CreatedPlan.checkpoints[k].condition = condition}
CheckpointsAt(condition, id) ==
    {k \in CheckpointsOn(condition) : CreatedPlan.checkpoints[k].taskId = id}
StrategiesFor(id) ==
    {k \in DOMAIN CreatedPlan.fallbackStrategies : CreatedPlan.fallbackStrategies[k].triggerId = id}

(***************************************************************************)
(* C17: a returned plan has exactly one checkpoint with condition          *)
(* task_completion and action pause for each task of priority critical,    *)
(* and no task_completion checkpoint for anything else.                    *)
(***************************************************************************)
C17_PauseAtCriticalTasks ==
    Planned =>
        /\ \A id \in IdsOf(tasks) :
              Cardinality(CheckpointsAt("task_completion", id))
                 = IF PriorityOf(tasks, id) = "critical" THEN 1 ELSE 0
        /\ \A k \in CheckpointsOn("task_completion") :
              /\ CreatedPlan.checkpoints[k].action = "pause"
              /\ CreatedPlan.checkpoints[k].taskId \in IdsOf(tasks)

\* critical tasks next to tasks of every other priority
C17_Witness ==
    /\ Planned
    /\ Len(tasks) = 4
    /\ {tasks[i].priority : i \in DOMAIN tasks} = Priorities
    /\ Cardinality(CheckpointsOn("task_completion")) = 1

(***************************************************************************)
(* C18: a returned plan has exactly one fallback strategy per task, with   *)
(* condition task_failure: human_intervention with escalationLevel         *)
(* immediate for a critical task, retry with maxRetries 3 and backoffMs    *)
(* 5000 for a task of any other priority.                                  *)
(***************************************************************************)
C18_FallbackPerTask ==
    Planned =>
        /\ Len(CreatedPlan.fallbackStrategies) = Len(tasks)
        /\ \A id \in IdsOf(tasks) :
              /\ Cardinality(StrategiesFor(id)) = 1
              /\ \A k \in StrategiesFor(id) :
                    LET strategy == CreatedPlan.fallbackStrategies[k]
                    IN  /\ strategy.condition = "task_failure"
                        /\ IF PriorityOf(tasks, id) = "critical"
                           THEN /\ strategy.action = "human_intervention"
                                /\ strategy.parameters = [escalationLevel |-> "immediate"]
                           ELSE /\ strategy.action = "retry"
                                /\ strategy.parameters = [maxRetries |-> 3, backoffMs |-> 5000]

\* two critical tasks between tasks that are retried
C18_Witness ==
    /\ Planned
    /\ Len(tasks) = 4
    /\ tasks[2].priority = "critical" /\ tasks[3].priority = "critical"
    /\ tasks[1].priority = "low" /\ tasks[4].priority = "high"
    /\ CreatedPlan.fallbackStrategies[2].action = "human_intervention"
    /\ CreatedPlan.fallbackStrategies[4].action = "retry"

(***************************************************************************)
(* C19: a returned plan has exactly one checkpoint progress_review /       *)
(* continue when its executionOrder has more than two tasks, at the task   *)
(* with index floor(n / 2) (counted from 0) of the order whatever its      *)
(* priority, and none when the order has two tasks or fewer.               *)
(***************************************************************************)
C19_ProgressReviewAtMidpoint ==
    Planned =>
        IF Len(CreatedOrder) > 2
        THEN /\ Cardinality(CheckpointsOn("progress_review")) = 1
             /\ \A k \in CheckpointsOn("progress_review") :
                   /\ CreatedPlan.checkpoints[k].action = "continue"
                   /\ CreatedPlan.checkpoints[k].taskId
                         = CreatedOrder[(Len(CreatedOrder) \div 2) + 1]
        ELSE CheckpointsOn("progress_review") = {}

\* the midpoint of three tasks is a critical task that is also paused at
C19_Witness ==
    /\ Planned
    /\ Len(CreatedOrder) = 3
    /\ CreatedOrder[2] \in IdsOf(tasks)
    /\ PriorityOf(tasks, CreatedOrder[2]) = "critical"
    /\ CheckpointsAt("progress_review", CreatedOrder[2]) # {}
    /\ CheckpointsAt("task_completion", CreatedOrder[2]) # {}

(***************************************************************************)
(* Validation (C14, C15)                                                   *)
(***************************************************************************)
Validated == validation # NoValidation

TaskWellFormed(task) == task.id /\ task.name /\ task.type

SubGoalFieldsWellFormed(sg) ==
    sg.id /\ sg.description /\ sg.tasks.kind = "array" /\ Len(sg.tasks.items) > 0

SubGoalsWellFormed(text) == text.subGoals.kind = "array" /\ Len(text.subGoals.items) > 0

DurationWellFormed(text) ==
    text.estimatedDuration.kind = "number" /\ text.estimatedDuration.value > 0

WellFormed(text) ==
    /\ text.json = "object"
    /\ SubGoalsWellFormed(text)
    /\ DurationWellFormed(text)
    /\ \A i \in DOMAIN text.subGoals.items :
          /\ SubGoalFieldsWellFormed(text.subGoals.items[i])
          /\ \A j \in DOMAIN text.subGoals.items[i].tasks.items :
                TaskWellFormed(text.subGoals.items[i].tasks.items[j])

\* C14: a payload is accepted only if subGoals is a non-empty list,
\* estimatedDuration is a number greater than zero, every subgoal has an id,
\* a description and a non-empty tasks list, and every task has an id, a name
\* and a type; every other payload is rejected.
C14_AcceptsOnlyWellFormed ==
    Validated => (validation.ok <=> WellFormed(content))

\* the first violation in the checking order: subGoals, estimatedDuration,
\* then each subgoal in list order (its fields, then its tasks in list order)
RECURSIVE FirstTaskViolation(_, _, _)
FirstTaskViolation(items, g, j) ==
    IF j > Len(items) THEN [at |-> "none", goal |-> 0, task |-> 0]
    ELSE IF ~TaskWellFormed(items[j]) THEN [at |-> "task", goal |-> g, task |-> j]
    ELSE FirstTaskViolation(items, g, j + 1)

RECURSIVE FirstSubGoalViolation(_, _)
FirstSubGoalViolation(goals, i) ==
    IF i > Len(goals) THEN [at |-> "none", goal |-> 0, task |-> 0]
    ELSE IF ~SubGoalFieldsWellFormed(goals[i]) THEN [at |-> "subGoal", goal |-> i, task |-> 0]
    ELSE LET inner == FirstTaskViolation(goals[i].tasks.items, i, 1)
         IN  IF inner.at = "none" THEN FirstSubGoalViolation(goals, i + 1) ELSE inner

FirstViolation(text) ==
    IF ~SubGoalsWellFormed(text) THEN [at |-> "subGoals", goal |-> 0, task |-> 0]
    ELSE IF ~DurationWellFormed(text) THEN [at |-> "estimatedDuration", goal |-> 0, task |-> 0]
    ELSE FirstSubGoalViolation(text.subGoals.items, 1)

\* C15: a rejected payload is rejected for its first violation in the checking
\* order, and the error names that field, subgoal or task.
C15_FirstViolationReported ==
    (Validated /\ content.json = "object" /\ ~validation.ok) =>
        validation.error = FirstViolation(content)

(***************************************************************************)
(* decomposeGoal's failures (C16)                                          *)
(***************************************************************************)
ValidationFailed(call) == call.validation # NoValidation /\ ~call.validation.ok

CallFailed(call) ==
    call.routed = "failed" \/ call.executed = "failed" \/ ValidationFailed(call)

Finished(call) == call.pc \in {"returned", "threw"}

StoredGoalIds(key) ==
    {calls[i].goalId : i \in {j \in DOMAIN calls :
                                calls[j].stored /\ historyKey(calls[j].agentId) = key}}

HistoryGoalIds(key) ==
    {historyGet(planningHistory, key)[n].goalId :
        n \in DOMAIN historyGet(planningHistory, key)}

\* C16: an invocation whose routing call, execution call or validation failed
\* ends by throwing, has called each collaborator at most once, and has
\* written nothing to the planning history: the history holds exactly the
\* plans of the invocations that returned one.
C16_FailureSurfacedWithoutRetryOrWrite ==
    /\ \A i \in DOMAIN calls :
          /\ calls[i].routeCalls <= 1 /\ calls[i].execCalls <= 1
          /\ CallFailed(calls[i]) =>
                /\ ~calls[i].stored
                /\ Finished(calls[i]) => calls[i].pc = "threw"
          /\ calls[i].routed = "failed" => calls[i].execCalls = 0
    /\ \A key \in {historyKey(a) : a \in AgentIds} :
          /\ HistoryGoalIds(key) = StoredGoalIds(key)
          /\ Len(historyGet(planningHistory, key)) = Cardinality(StoredGoalIds(key))

C16_Witness ==
    \E i, j \in DOMAIN calls :
        /\ calls[i].pc = "threw" /\ ValidationFailed(calls[i])
        /\ calls[j].pc = "threw" /\ calls[j].routed = "failed"
        /\ planningHistory = <<>>

(***************************************************************************)
(* Reflection (C20)                                                        *)
(***************************************************************************)
Reflected == insights # NoInsights

NothingRan == results.completedTasks = <<>> /\ results.failedTasks = <<>>

\* C20: reflecting on results without any completed or failed task returns
\* insights computed for a success rate of 0: weaknesses and no strengths.
C20_NoTasksMeansRateZero ==
    (Reflected /\ NothingRan) =>
        /\ insights.status = "returned"
        /\ insights.weaknesses # <<>>
        /\ insights.strengths = <<>>

(***************************************************************************)
(* Insights (C21, C22, C23)                                                *)
(***************************************************************************)
Completed == Len(results.completedTasks)
FailedCount == Len(results.failedTasks)
Ran == Completed + FailedCount

\* C21: when at least one task completed or failed, strengths are emitted iff
\* completed / (completed + failed) > 0.8, weaknesses iff it is < 0.6, never
\* both, and optimization opportunities iff qualityScore < 0.7.
C21_InsightsByThreshold ==
    (Reflected /\ Ran > 0) =>
        /\ insights.strengths # <<>> <=> 10 * Completed > 8 * Ran
        /\ insights.weaknesses # <<>> <=> 10 * Completed < 6 * Ran
        /\ ~(insights.strengths # <<>> /\ insights.weaknesses # <<>>)
        /\ insights.optimizationOpportunities # <<>> <=>
              10 * results.qualityScore.n < 7 * results.qualityScore.d

\* a success rate of exactly 0.8 and a quality score of exactly 0.7: nothing
C21_Witness ==
    /\ Reflected
    /\ Completed = 4 /\ FailedCount = 1
    /\ results.qualityScore = Num(7, 10)
    /\ insights.strengths = <<>> /\ insights.weaknesses = <<>>
    /\ insights.optimizationOpportunities = <<>>

PatternCount ==
    (IF results.totalDuration > Completed * 60 THEN 1 ELSE 0)
    + (IF FailedCount > 0 THEN 1 ELSE 0)

TenthsExpected ==
    8 + (IF Len(insights.strengths) > Len(insights.weaknesses) THEN 1 ELSE -1)
      - (IF PatternCount > 2 THEN 2 ELSE 0)

\* C22: the confidence score is 0.8, plus 0.1 when the strengths outnumber the
\* weaknesses and minus 0.1 otherwise, minus 0.2 for more than two patterns,
\* clamped to [0.1, 1.0]; it always lies in [0.1, 1.0].
C22_ConfidenceScoreFormula ==
    Reflected =>
        /\ insights.confidenceScore =
              Num(IF TenthsExpected < 1 THEN 1
                  ELSE IF TenthsExpected > 10 THEN 10 ELSE TenthsExpected, 10)
        /\ ~Less(insights.confidenceScore, Num(1, 10))
        /\ ~Greater(insights.confidenceScore, Num(10, 10))
        /\ ~IsNaN(insights.confidenceScore)

\* neither strengths nor weaknesses, two patterns: 0.8 - 0.1
C22_Witness ==
    /\ Reflected
    /\ insights.strengths = <<>> /\ insights.weaknesses = <<>>
    /\ Ran > 0
    /\ PatternCount = 2
    /\ insights.confidenceScore = Num(7, 10)

\* C23: results with a completed task and no failed task yield strengths, no
\* weaknesses and a confidence score of at least 0.8, for every totalDuration
\* and qualityScore.
C23_AllCompletedIsStrong ==
    (Reflected /\ Completed >= 1 /\ FailedCount = 0) =>
        /\ insights.strengths # <<>>
        /\ insights.weaknesses = <<>>
        /\ ~Less(insights.confidenceScore, Num(8, 10))
        /\ ~IsNaN(insights.confidenceScore)

\* one completed task that overran and scored low
C23_Witness ==
    /\ Reflected
    /\ Completed = 1 /\ FailedCount = 0
    /\ results.totalDuration = 200
    /\ results.qualityScore = Num(5, 10)
    /\ insights.confidenceScore = Num(9, 10)

(***************************************************************************)
(* Order and groups (C24, C25, C26, C28)                                   *)
(***************************************************************************)
PositionIn(seq, x) == CHOOSE i \in DOMAIN seq : seq[i] = x
TaskPosition(id) == CHOOSE i \in DOMAIN tasks : tasks[i].id = id
Independent(a, b) ==
    a \notin DependsOnAll(tasks, b) /\ b \notin DependsOnAll(tasks, a)
CreatedGroups == CreatedPlan.parallelGroups

\* C24: of two tasks without a dependency path between them, the one that is
\* first in the input list is first in executionOrder.
C24_TiesFollowInputOrder ==
    (Planned /\ DepsKnown(tasks)) =>
        \A i, j \in DOMAIN tasks :
            (i < j /\ Independent(tasks[i].id, tasks[j].id)) =>
                PositionIn(CreatedOrder, tasks[i].id) < PositionIn(CreatedOrder, tasks[j].id)

\* C25: no member of a parallel group depends on another member of the group,
\* directly or through other tasks.
C25_GroupsMutuallyIndependent ==
    (Planned /\ DepsKnown(tasks)) =>
        \A k \in DOMAIN CreatedGroups :
            \A a, b \in Range(CreatedGroups[k]) :
                a # b => Independent(a, b)

\* C26: the groups are pairwise disjoint and have at least two members; the
\* members are in plan order; when a group is started, its first member is
\* the earliest task not yet assigned, so no task of that group or a later one
\* precedes it in the plan; every other member has no direct dependency edge
\* to or from the first member.
C26_GreedyGroupsShape ==
    Planned =>
        /\ \A k, l \in DOMAIN CreatedGroups :
              k # l => Range(CreatedGroups[k]) \cap Range(CreatedGroups[l]) = {}
        /\ \A k \in DOMAIN CreatedGroups :
              LET group == CreatedGroups[k] IN
              /\ Len(group) >= 2
              /\ \A a, b \in DOMAIN group :
                    a < b => TaskPosition(group[a]) < TaskPosition(group[b])
              /\ \A l \in k..Len(CreatedGroups) :
                    \A m \in DOMAIN CreatedGroups[l] :
                       TaskPosition(group[1]) <= TaskPosition(CreatedGroups[l][m])
              /\ \A m \in 2..Len(group) :
                    /\ group[m] \notin DepsOf(tasks, group[1])
                    /\ group[1] \notin DepsOf(tasks, group[m])

\* two groups, the second one started at a task that depends on the first
\* group's first member
C26_Witness ==
    /\ Planned
    /\ Len(CreatedGroups) = 2
    /\ CreatedGroups[1][1] \in DepsOf(tasks, CreatedGroups[2][1])

RECURSIVE ChainTo(_, _, _)
\* the longest total duration of a dependency chain that ends in `id`; fuel
\* bounds the length of the chain
ChainTo(ts, id, fuel) ==
    IF fuel = 0 THEN 0
    ELSE LET before == {ChainTo(ts, d, fuel - 1) : d \in DepsOf(ts, id)} \cup {0}
         IN  DurationOf(ts, id) + CHOOSE m \in before : \A x \in before : x <= m

\* C28: the estimated duration of a created plan is at least the total
\* duration of every dependency chain of the plan.
C28_DurationCoversCriticalPath ==
    (Planned /\ DepsKnown(tasks)) =>
        \A id \in IdsOf(tasks) :
            ~Less(CreatedPlan.estimatedDuration, FromInt(ChainTo(tasks, id, Len(tasks))))

(***************************************************************************)
(* What an adaptation leaves alone (C27) and refers to (C29)               *)
(***************************************************************************)
\* C27: the plan returned by adaptPlan has the taskPlan (version included),
\* parallelGroups, resourceAllocation, checkpoints and fallbackStrategies of
\* the input plan, for every feedback status.
C27_AdaptationFrame ==
    Adapted =>
        /\ Output.taskPlan = Before.taskPlan
        /\ Output.taskPlan.version = 1
        /\ Output.parallelGroups = Before.parallelGroups
        /\ Output.resourceAllocation = Before.resourceAllocation
        /\ Output.checkpoints = Before.checkpoints
        /\ Output.fallbackStrategies = Before.fallbackStrategies

\* a failed critical task was removed from the order of a plan that has a
\* checkpoint, and the returned plan has a new id
C27_Witness ==
    /\ AdaptedWith("failed")
    /\ Output.executionOrder # Before.executionOrder
    /\ Output.id # Before.id
    /\ Output.checkpoints # <<>>
    /\ Output.resourceAllocation # <<>>

ReferencedIds(plan) ==
    UNION {Range(plan.parallelGroups[k]) : k \in DOMAIN plan.parallelGroups}
    \cup {plan.checkpoints[k].taskId : k \in DOMAIN plan.checkpoints}
    \cup {plan.fallbackStrategies[k].triggerId : k \in DOMAIN plan.fallbackStrategies}
    \cup DOMAIN plan.resourceAllocation

\* C29: every task id in the parallelGroups, checkpoints, fallbackStrategies
\* or resourceAllocation of a plan, created or adapted, is in the plan's
\* executionOrder.
C29_PlansReferentiallyConsistent ==
    \A h \in DOMAIN plans :
        ReferencedIds(plans[h]) \subseteq Range(arrays[plans[h].executionOrder])

(***************************************************************************)
(* Planning statistics (C30)                                               *)
(***************************************************************************)
StatsAgents == (AgentIds \ {""}) \cup {"default"}

\* the invocations that returned a plan for agent a; those without an agentId
\* count under 'default'
Succeeded(a) ==
    {i \in DOMAIN calls :
        /\ calls[i].pc = "returned"
        /\ (IF calls[i].agentId = "" THEN "default" ELSE calls[i].agentId) = a}

IsPrefix(s, t) == Len(s) <= Len(t) /\ SubSeq(t, 1, Len(s)) = s

\* C30: totalPlans of an agent is the number of decomposeGoal calls that
\* succeeded for it, every stored plan has version 1, a history only grows,
\* and a step changes the statistics of the agent of one call only.
C30_StatsCountSuccessfulCalls ==
    /\ [](\A a \in StatsAgents :
            /\ getPlanningStats(planningHistory, a).totalPlans = Cardinality(Succeeded(a))
            /\ \A n \in DOMAIN historyGet(planningHistory, a) :
                  historyGet(planningHistory, a)[n].version = 1)
    /\ [][/\ \A a \in StatsAgents :
               IsPrefix(historyGet(planningHistory, a), historyGet(planningHistory', a))
          /\ Cardinality({a \in StatsAgents :
                 getPlanningStats(planningHistory', a) # getPlanningStats(planningHistory, a)})
               <= 1]_vars

\* two plans stored for one agent, none for the others
C30_Witness ==
    /\ getPlanningStats(planningHistory, "agent1").totalPlans = 2
    /\ getPlanningStats(planningHistory, "agent2").totalPlans = 0
    /\ getPlanningStats(planningHistory, "default").totalPlans = 0
    /\ \E i \in DOMAIN calls : calls[i].agentId = "agent1" /\ calls[i].pc = "returned"

====
